---- MODULE Spec2Model ----
(***************************************************************************)
(* AsyncHTTPClient of bindu/utils/http_client.py: the session lifecycle    *)
(* (_ensure_session, close, __aenter__, __aexit__, the http_client         *)
(* factory), the verb wrappers and the retry/backoff loop of request().    *)
(* Every suspension point of the code (the network round trip of an        *)
(* attempt, the body read, asyncio.sleep, session.close) separates two     *)
(* actions; the code between two suspension points is one atomic action.   *)
(***************************************************************************)
EXTENDS Integers, Sequences, FiniteSets, TLC

\* ------------------------------------------------------------------ bounds
\* max_retries is drawn from -1 .. MaxRetriesBound at construction.
MaxRetriesBound == 4
\* No more than MaxSessions sessions are ever created by the client.
MaxSessions == 3
\* No more than MaxCalls request() calls are made between two close() calls.
MaxCalls == 2
\* max_retries is drawn from 1 .. SmallRetries in the specifications with
\* two tasks, with verb wrappers and with argument strings.
SmallRetries == 2
\* base_url and endpoint are strings of at most MaxUrlLen characters.
MaxUrlLen == 3

\* ------------------------------------------------------------- input sets
\* Tasks that may call into the client; SeqTasks is the single task of the
\* sequential specification (non-overlapping operations).
Tasks == {"main", "other"}
SeqTasks == {"main"}

\* self._session = None
NoSession == 0

\* Statuses a server answers with: a success, a 4xx and two 5xx.
Statuses == {200, 429, 500, 503}
\* Bodies a server answers with.
Bodies == {"b1", "b2"}
\* Exceptions an attempt can raise: the two connection-level errors the
\* loop catches, and one it does not (the total-timeout expiring).
ErrorKinds == {"ClientConnectorError", "ServerDisconnectedError", "TimeoutError"}

\* retry_on_status: Optional[list[int]] -- None, or a list of codes.
NotSupplied == [supplied |-> FALSE, codes |-> {}]
Supplied(S) == [supplied |-> TRUE, codes |-> S]
RetryOnStatusArgs == {NotSupplied, Supplied({}), Supplied({429}), Supplied({429, 500})}

\* The public entry points: request() itself and the five verb wrappers.
Verbs == {"get", "post", "put", "delete", "patch"}

\* Strings are sequences of characters; "/" and one other character.
Chars == {"h", "/"}
Strings(n) == UNION {[1 .. k -> Chars] : k \in 0 .. n}

\* Optional[Dict[str, str]]: None, or a mapping of header names to values.
NoHeaders == [supplied |-> FALSE, map |-> <<>>]
HeadersOf(m) == [supplied |-> TRUE, map |-> m]
DefaultHeaderArgs == {NoHeaders, HeadersOf("A" :> "1"), HeadersOf(("A" :> "1") @@ ("B" :> "1"))}
HeaderArgs == {NoHeaders, HeadersOf(<<>>), HeadersOf("B" :> "3"),
               HeadersOf(("A" :> "2") @@ ("B" :> "3"))}

\* The arguments of the sequential specification's client and requests.
PlainCtor == [base_url |-> <<"h">>, default_headers |-> NoHeaders]
PlainEndpoint == <<"/", "h">>
DirectCall(arg) == [arg |-> arg, via |-> "request"]

VARIABLES
    ctor_args,        \* history: base_url and default_headers as given to __init__
    base_url,         \* self.base_url
    default_headers,  \* self.default_headers
    max_retries,      \* self.max_retries
    session,          \* self._session: NoSession or the id of a session
    closed,           \* closed[s]: session s (1 .. Len(closed) were created) is closed
    factory,          \* the http_client() generator: "none", "body" (at its yield), "done"
    pc,               \* pc[t]: where task t is suspended
    op,               \* op[t]: the operation task t is in, or has last finished
    exc,              \* exc[t]: the exception the scope exit of t was entered with
    caller,           \* caller[t]: the entry point t called and the retry_on_status it gave
    method,           \* method[t]: the method argument of t's request()
    endpoint,         \* endpoint[t]: the endpoint argument of t's request()
    headers,          \* headers[t]: the headers argument of t's request()
    url,              \* url[t]: the local url
    request_headers,  \* request_headers[t]: the local request_headers
    retry_on_status,  \* retry_on_status[t]: the argument of t's request()
    retry_statuses,   \* retry_statuses[t]: the local retry_statuses
    attempt,          \* attempt[t]: the loop variable
    conn,             \* conn[t]: the number of responses (connections) t's call holds
    response,         \* response[t]: the response object of the current attempt
    outcomes,         \* outcomes[t]: how each finished attempt of the call ended
    waits,            \* waits[t]: the asyncio.sleep durations of the call, in order
    used,             \* used[t]: the session each attempt of the call was issued over
    result,           \* result[t]: what the operation gave its caller
    sessions_used,    \* history: the sessions attempts were issued over since the last close() began
    requests_made,    \* history: the number of request() calls since the last close() began
    cancelled,        \* history: cancelled[t], t's call was cancelled
    overlapped        \* history: overlapped[t], the task in whose current sleep t's call began

configVars == <<ctor_args, base_url, default_headers>>
clientVars == <<max_retries, session, closed>>
argVars == <<caller, method, endpoint, headers, url, request_headers>>
callVars == <<retry_on_status, retry_statuses, attempt, conn, response, outcomes, waits, used>>
histVars == <<sessions_used, requests_made>>
vars == <<ctor_args, base_url, default_headers, max_retries, session, closed, factory,
          pc, op, exc, caller, method, endpoint, headers, url, request_headers,
          retry_on_status, retry_statuses, attempt, conn, response, outcomes, waits,
          used, result, sessions_used, requests_made, cancelled, overlapped>>

\* ---------------------------------------------------------------- values
NoResponse == [status |-> 0, payload |-> "none", body |-> "unread"]
ServerResponse(status, payload) == [status |-> status, payload |-> payload, body |-> "unread"]

StatusOutcome(status) == [status |-> status, kind |-> "status", err |-> "none"]
ErrorOutcome(err) == [status |-> 0, kind |-> "error", err |-> err]

Pending == [status |-> 0, body |-> "none", kind |-> "pending", err |-> "none", at |-> -1]
Returned == [status |-> 0, body |-> "none", kind |-> "returned", err |-> "none", at |-> -1]
ResponseResult(r) == [status |-> r.status, body |-> r.body, kind |-> "response", err |-> "none", at |-> -1]
Raised(err, i) == [status |-> 0, body |-> "none", kind |-> "raised", err |-> err, at |-> i]

\* ------------------------------------------------- the code's expressions
\* str.rstrip("/"): every trailing "/" is removed.
RECURSIVE RStrip(_)
RStrip(s) ==
    IF s # <<>> /\ s[Len(s)] = "/" THEN RStrip(SubSeq(s, 1, Len(s) - 1)) ELSE s

\* self.base_url = base_url.rstrip("/")
StoredBaseUrl(b) == RStrip(b)

\* self.default_headers = default_headers or {}
StoredHeaders(h) == IF h.supplied THEN h.map ELSE <<>>

\* Mutant: the separating slash is always inserted.
BuildUrlAlwaysSlash(base, e) == base \o <<"/">> \o e

\* url = f"{self.base_url}{endpoint}" if endpoint.startswith("/")
\*       else f"{self.base_url}/{endpoint}"
BuildUrl(base, e) ==
    IF e # <<>> /\ e[1] = "/" THEN base \o e ELSE base \o <<"/">> \o e

\* Mutant: the default value wins on a key collision.
MergeHeadersDefaultWins(d, h) ==
    [k \in DOMAIN d \cup DOMAIN StoredHeaders(h) |->
        IF k \in DOMAIN d THEN d[k] ELSE StoredHeaders(h)[k]]

\* request_headers = {**self.default_headers, **(headers or {})}
MergeHeaders(d, h) ==
    [k \in DOMAIN d \cup DOMAIN StoredHeaders(h) |->
        IF k \in DOMAIN StoredHeaders(h) THEN StoredHeaders(h)[k] ELSE d[k]]

\* The method each wrapper passes to request().
WrapperMethod(verb) ==
    CASE verb = "get" -> "GET"
      [] verb = "post" -> "POST"
      [] verb = "put" -> "PUT"
      [] verb = "delete" -> "DELETE"
      [] verb = "patch" -> "PATCH"

\* Mutant: the wrapper does not forward its keyword arguments.
WrapperKwargsDropped(arg) == NotSupplied

\* **kwargs of a wrapper, forwarded to request(): retry_on_status among them.
WrapperKwargs(arg) == arg

\* Mutant: the guard is dropped, every call creates a session.
NeedsSessionAlways == TRUE

\* Mutant: a session is created on first use only, never again after close().
NeedsSessionOnlyFirst == session = NoSession /\ Len(closed) = 0

\* _ensure_session: self._session is None or self._session.closed
NeedsSession == session = NoSession \/ closed[session]

\* Mutant: the test of the session's state is inverted.
CanCloseInverted == session # NoSession /\ closed[session]

\* Mutant: close() closes the session without looking at it.
CanCloseAlways == TRUE

\* close: self._session and not self._session.closed
CanClose == session # NoSession /\ ~closed[session]

\* __aexit__ returns None and the factory's finally re-raises: the error the
\* scope body ended with, if any, goes on to the caller.
ExitResult(e) == IF e = "none" THEN Returned ELSE Raised(e, -1)

\* list(range(500, 600))
DefaultRetryStatuses == 500 .. 599

\* Mutant: the caller's codes are added to the default set.
RetryStatusesUnion(arg) == arg.codes \cup (500 .. 599)

\* retry_statuses = retry_on_status or list(range(500, 600)): None and the
\* empty list are both falsy.
RetryStatuses(arg) ==
    IF arg.supplied /\ arg.codes # {} THEN arg.codes ELSE DefaultRetryStatuses

\* for attempt in range(self.max_retries)
LoopHasNext(i) == i < max_retries

\* Mutant: the final attempt is retried too (off by one).
ShouldRetryStatusOffByOne(status, statuses, i) == status \in statuses /\ i < max_retries

\* response.status in retry_statuses and attempt < self.max_retries - 1
ShouldRetryStatus(status, statuses, i) == status \in statuses /\ i < max_retries - 1

\* wait_time = 2 ** attempt (retryable status)
StatusWaitTime(i) == 2 ^ i

\* Mutant: every exception is caught (except BaseException).
CaughtAll(err) == TRUE

\* except (aiohttp.ClientConnectorError, aiohttp.ServerDisconnectedError)
Caught(err) == err \in {"ClientConnectorError", "ServerDisconnectedError"}

\* Mutant: the handler sleeps after the final attempt too (off by one).
ShouldRetryErrorOffByOne(i) == i < max_retries

\* Mutant: the handler gives up one attempt early.
ShouldRetryErrorEarly(i) == i < max_retries - 2

\* if attempt < self.max_retries - 1 (in the except handler)
ShouldRetryError(i) == i < max_retries - 1

\* Mutant: the except handler waits a constant second.
ErrorWaitTimeConstant(i) == 1

\* wait_time = 2 ** attempt (connection-level error)
ErrorWaitTime(i) == 2 ^ i

\* Mutant: the body is not stored on the response.
ReadResponseSkipped(r) == r

\* response_data = await response.read(); response._body = response_data
ReadResponse(r) == [r EXCEPT !.body = r.payload]

\* Mutant: the response is released as soon as it is received.
HeldInBlockNot(c) == c

\* async with self._session.request(...) as response: the block holds the
\* response, and its connection, from the arrival of the response on.
HeldInBlock(c) == c + 1

\* Mutant: continue does not release the response of the failed attempt.
HeldAfterWakeLeak(p, c) == c

\* continue leaves the async with block, which releases the response; the
\* except handler holds none.
HeldAfterWake(p, c) == IF p = "sleep_with" THEN c - 1 ELSE c

\* Mutant: the sleep blocks the thread of the event loop (time.sleep).
SleepSuspendsAll(sleeper, t) == TRUE

\* await asyncio.sleep(wait_time) suspends the task that awaits it only.
SleepSuspends(sleeper, t) == sleeper = t

Sleeping(t) == pc[t] \in {"sleep_with", "sleep_except"}

\* No sleep of another task keeps t from running.
NotBlocked(t) == \A s \in Tasks \ {t} : Sleeping(s) => ~SleepSuspends(s, t)

\* ------------------------------------------------------------------ Init
\* The client after AsyncHTTPClient(base_url=c.base_url, max_retries=n,
\* default_headers=c.default_headers).
InitClient(n, c) ==
    /\ ctor_args = c
    /\ base_url = StoredBaseUrl(c.base_url)
    /\ default_headers = StoredHeaders(c.default_headers)
    /\ max_retries = n
    /\ session = NoSession
    /\ closed = <<>>
    /\ factory = "none"
    /\ pc = [t \in Tasks |-> "idle"]
    /\ op = [t \in Tasks |-> "none"]
    /\ exc = [t \in Tasks |-> "none"]
    /\ caller = [t \in Tasks |-> DirectCall(NotSupplied)]
    /\ method = [t \in Tasks |-> "none"]
    /\ endpoint = [t \in Tasks |-> <<>>]
    /\ headers = [t \in Tasks |-> NoHeaders]
    /\ url = [t \in Tasks |-> <<>>]
    /\ request_headers = [t \in Tasks |-> <<>>]
    /\ retry_on_status = [t \in Tasks |-> NotSupplied]
    /\ retry_statuses = [t \in Tasks |-> {}]
    /\ attempt = [t \in Tasks |-> 0]
    /\ conn = [t \in Tasks |-> 0]
    /\ response = [t \in Tasks |-> NoResponse]
    /\ outcomes = [t \in Tasks |-> <<>>]
    /\ waits = [t \in Tasks |-> <<>>]
    /\ used = [t \in Tasks |-> <<>>]
    /\ result = [t \in Tasks |-> Pending]
    /\ sessions_used = {}
    /\ requests_made = 0
    /\ cancelled = [t \in Tasks |-> FALSE]
    /\ overlapped = [t \in Tasks |-> "none"]

Init == \E n \in -1 .. MaxRetriesBound : InitClient(n, PlainCtor)

\* --------------------------------------------------------------- actions
\* The locals of a call, as they are when an operation starts.
ResetCall(t) ==
    /\ caller' = [caller EXCEPT ![t] = DirectCall(NotSupplied)]
    /\ method' = [method EXCEPT ![t] = "none"]
    /\ endpoint' = [endpoint EXCEPT ![t] = <<>>]
    /\ headers' = [headers EXCEPT ![t] = NoHeaders]
    /\ url' = [url EXCEPT ![t] = <<>>]
    /\ request_headers' = [request_headers EXCEPT ![t] = <<>>]
    /\ retry_on_status' = [retry_on_status EXCEPT ![t] = NotSupplied]
    /\ retry_statuses' = [retry_statuses EXCEPT ![t] = {}]
    /\ attempt' = [attempt EXCEPT ![t] = 0]
    /\ conn' = [conn EXCEPT ![t] = 0]
    /\ response' = [response EXCEPT ![t] = NoResponse]
    /\ outcomes' = [outcomes EXCEPT ![t] = <<>>]
    /\ waits' = [waits EXCEPT ![t] = <<>>]
    /\ used' = [used EXCEPT ![t] = <<>>]
    /\ cancelled' = [cancelled EXCEPT ![t] = FALSE]
    /\ overlapped' = [overlapped EXCEPT ![t] = "none"]

\* _ensure_session(): a new ClientSession replaces an absent or closed one.
EnsureSession ==
    /\ NeedsSession => Len(closed) < MaxSessions
    /\ session' = IF NeedsSession THEN Len(closed) + 1 ELSE session
    /\ closed' = IF NeedsSession THEN Append(closed, FALSE) ELSE closed

\* __aenter__: await self._ensure_session(); return self
Enter(t) ==
    /\ pc[t] = "idle"
    /\ NotBlocked(t)
    /\ EnsureSession
    /\ op' = [op EXCEPT ![t] = "aenter"]
    /\ exc' = [exc EXCEPT ![t] = "none"]
    /\ result' = [result EXCEPT ![t] = Returned]
    /\ ResetCall(t)
    /\ UNCHANGED <<configVars, max_retries, factory, pc, histVars>>

\* http_client(...) up to its yield, on the client it has just constructed:
\* await client._ensure_session(); yield client
FactoryEnter(t) ==
    /\ pc[t] = "idle"
    /\ NotBlocked(t)
    /\ factory = "none"
    /\ session = NoSession /\ closed = <<>>
    /\ \A u \in Tasks : op[u] = "none"
    /\ EnsureSession
    /\ factory' = "body"
    /\ op' = [op EXCEPT ![t] = "factory"]
    /\ exc' = [exc EXCEPT ![t] = "none"]
    /\ result' = [result EXCEPT ![t] = Returned]
    /\ ResetCall(t)
    /\ UNCHANGED <<configVars, max_retries, pc, histVars>>

\* The exceptions a scope body can end with when t leaves it: none, one of
\* its own, or the one t's request() has just raised.
BodyErrors(t) ==
    {"none", "BodyError"} \cup (IF result[t].kind = "raised" THEN {result[t].err} ELSE {})

\* How close() is reached: called directly, from __aexit__ (which awaits
\* it), or from the finally of http_client once its body has ended.
ExitKind(t, name, e) ==
    /\ name \in {"close", "aexit", "finally"}
    /\ name = "close" => e = "none"
    /\ name # "close" => e \in BodyErrors(t)
    /\ name = "finally" => factory = "body"
    /\ factory' = IF name = "finally" THEN "done" ELSE factory
    /\ op' = [op EXCEPT ![t] = name]
    /\ exc' = [exc EXCEPT ![t] = e]

\* close(), up to the suspension in await self._session.close().
CloseBegin(t, name) ==
    /\ pc[t] = "idle"
    /\ NotBlocked(t)
    /\ CanClose
    /\ \E e \in {"none", "BodyError"} \cup ErrorKinds \cup {"ClientError"} : ExitKind(t, name, e)
    /\ closed' = [closed EXCEPT ![session] = TRUE]
    /\ pc' = [pc EXCEPT ![t] = "closing"]
    /\ result' = [result EXCEPT ![t] = Pending]
    /\ ResetCall(t)
    /\ sessions_used' = {}
    /\ requests_made' = 0
    /\ UNCHANGED <<configVars, max_retries, session>>

\* close() when there is no open session: nothing is done.
CloseNoop(t, name) ==
    /\ pc[t] = "idle"
    /\ NotBlocked(t)
    /\ ~CanClose
    /\ \E e \in {"none", "BodyError"} \cup ErrorKinds \cup {"ClientError"} : ExitKind(t, name, e)
    /\ result' = [result EXCEPT ![t] = ExitResult(exc'[t])]
    /\ ResetCall(t)
    /\ UNCHANGED <<configVars, max_retries, session, closed, pc, histVars>>

\* close() after await self._session.close(): self._session = None
CloseFinish(t) ==
    /\ pc[t] = "closing"
    /\ NotBlocked(t)
    /\ session' = NoSession
    /\ pc' = [pc EXCEPT ![t] = "idle"]
    /\ result' = [result EXCEPT ![t] = ExitResult(exc[t])]
    /\ UNCHANGED <<configVars, max_retries, closed, factory, op, exc>>
    /\ UNCHANGED <<argVars, callVars, histVars, cancelled, overlapped>>

\* The top of the loop with index i: the loop is over (the raise after it),
\* or self._session.request(...) is evaluated on the session the client
\* references now (sess, whose state is cl): an absent session has no
\* request attribute, a closed one refuses the request, an open one issues
\* the attempt.
LoopTop(t, i, sess, cl, usedSoFar) ==
    IF ~LoopHasNext(i)
    THEN /\ pc' = [pc EXCEPT ![t] = "idle"]
         /\ result' = [result EXCEPT ![t] = Raised("ClientError", -1)]
         /\ attempt' = attempt
         /\ used' = [used EXCEPT ![t] = usedSoFar]
         /\ UNCHANGED sessions_used
    ELSE IF sess = NoSession
    THEN /\ pc' = [pc EXCEPT ![t] = "idle"]
         /\ result' = [result EXCEPT ![t] = Raised("AttributeError", i)]
         /\ attempt' = [attempt EXCEPT ![t] = i]
         /\ used' = [used EXCEPT ![t] = usedSoFar]
         /\ UNCHANGED sessions_used
    ELSE IF cl[sess]
    THEN /\ pc' = [pc EXCEPT ![t] = "idle"]
         /\ result' = [result EXCEPT ![t] = Raised("RuntimeError", i)]
         /\ attempt' = [attempt EXCEPT ![t] = i]
         /\ used' = [used EXCEPT ![t] = usedSoFar]
         /\ UNCHANGED sessions_used
    ELSE /\ pc' = [pc EXCEPT ![t] = "inflight"]
         /\ result' = [result EXCEPT ![t] = Pending]
         /\ attempt' = [attempt EXCEPT ![t] = i]
         /\ used' = [used EXCEPT ![t] = Append(usedSoFar, sess)]
         /\ sessions_used' = sessions_used \cup {sess}

\* request(m, e, headers=h, retry_on_status=arg), reached as c says, up to
\* the first suspension: the session is ensured, url, request_headers and
\* retry_statuses are computed, the loop is entered.
Request(t, c, m, e, h, arg) ==
    /\ pc[t] = "idle"
    /\ NotBlocked(t)
    /\ requests_made < MaxCalls
    /\ requests_made' = requests_made + 1
    /\ EnsureSession
    /\ op' = [op EXCEPT ![t] = "request"]
    /\ exc' = [exc EXCEPT ![t] = "none"]
    /\ caller' = [caller EXCEPT ![t] = c]
    /\ method' = [method EXCEPT ![t] = m]
    /\ endpoint' = [endpoint EXCEPT ![t] = e]
    /\ headers' = [headers EXCEPT ![t] = h]
    /\ url' = [url EXCEPT ![t] = BuildUrl(base_url, e)]
    /\ request_headers' = [request_headers EXCEPT ![t] = MergeHeaders(default_headers, h)]
    /\ retry_on_status' = [retry_on_status EXCEPT ![t] = arg]
    /\ retry_statuses' = [retry_statuses EXCEPT ![t] = RetryStatuses(arg)]
    /\ conn' = [conn EXCEPT ![t] = 0]
    /\ response' = [response EXCEPT ![t] = NoResponse]
    /\ outcomes' = [outcomes EXCEPT ![t] = <<>>]
    /\ waits' = [waits EXCEPT ![t] = <<>>]
    /\ cancelled' = [cancelled EXCEPT ![t] = FALSE]
    /\ overlapped' = [overlapped EXCEPT ![t] =
           IF \E s \in Tasks \ {t} : Sleeping(s)
           THEN CHOOSE s \in Tasks \ {t} : Sleeping(s) ELSE "none"]
    /\ LoopTop(t, 0, session', closed', <<>>)
    /\ UNCHANGED <<configVars, max_retries, factory>>

\* request("GET", "/h", retry_on_status=arg) called directly.
RequestStart(t, arg) ==
    Request(t, DirectCall(arg), "GET", PlainEndpoint, NoHeaders, arg)

\* get/post/put/delete/patch(e, headers=h, retry_on_status=arg):
\* return await self.request(METHOD, endpoint, ..., headers=headers, **kwargs)
VerbStart(t, verb, e, h, arg) ==
    Request(t, [arg |-> arg, via |-> verb], WrapperMethod(verb), e, h, WrapperKwargs(arg))

\* The response of the attempt in flight arrives (async with ... as
\* response): a retryable status on a non-final attempt starts the sleep
\* inside the async with block; any other response goes on to the read.
Respond(t, status, payload) ==
    /\ pc[t] = "inflight"
    /\ NotBlocked(t)
    /\ response' = [response EXCEPT ![t] = ServerResponse(status, payload)]
    /\ conn' = [conn EXCEPT ![t] = HeldInBlock(@)]
    /\ IF ShouldRetryStatus(status, retry_statuses[t], attempt[t])
       THEN /\ waits' = [waits EXCEPT ![t] = Append(@, StatusWaitTime(attempt[t]))]
            /\ outcomes' = [outcomes EXCEPT ![t] = Append(@, StatusOutcome(status))]
            /\ pc' = [pc EXCEPT ![t] = "sleep_with"]
       ELSE /\ UNCHANGED <<waits, outcomes>>
            /\ pc' = [pc EXCEPT ![t] = "read"]
    /\ UNCHANGED <<configVars, clientVars, factory, op, exc, argVars, retry_on_status,
                   retry_statuses, attempt, used, result, histVars, cancelled, overlapped>>

\* await response.read() completes: the body is stored on the response,
\* the response is returned and the async with block releases it.
ReadBody(t) ==
    /\ pc[t] = "read"
    /\ NotBlocked(t)
    /\ response' = [response EXCEPT ![t] = ReadResponse(@)]
    /\ result' = [result EXCEPT ![t] = ResponseResult(response'[t])]
    /\ outcomes' = [outcomes EXCEPT ![t] = Append(@, StatusOutcome(response[t].status))]
    /\ conn' = [conn EXCEPT ![t] = @ - 1]
    /\ pc' = [pc EXCEPT ![t] = "idle"]
    /\ UNCHANGED <<configVars, clientVars, factory, op, exc, argVars, retry_on_status,
                   retry_statuses, attempt, waits, used, histVars, cancelled, overlapped>>

\* The except clause and its handler for exception err raised in the try
\* block at attempt[t]: a caught one on a non-final attempt starts the
\* sleep of the handler, any other one reaches the caller.
Handle(t, err) ==
    IF Caught(err) /\ ShouldRetryError(attempt[t])
    THEN /\ waits' = [waits EXCEPT ![t] = Append(@, ErrorWaitTime(attempt[t]))]
         /\ pc' = [pc EXCEPT ![t] = "sleep_except"]
         /\ UNCHANGED result
    ELSE /\ UNCHANGED waits
         /\ pc' = [pc EXCEPT ![t] = "idle"]
         /\ result' = [result EXCEPT ![t] = Raised(err, attempt[t])]

\* An exception is raised inside the try block, by the request or by the
\* read (which leaves the async with block, releasing the response).
Fail(t, err) ==
    /\ pc[t] \in {"inflight", "read"}
    /\ NotBlocked(t)
    /\ outcomes' = [outcomes EXCEPT ![t] = Append(@, ErrorOutcome(err))]
    /\ conn' = [conn EXCEPT ![t] = IF pc[t] = "read" THEN @ - 1 ELSE @]
    /\ Handle(t, err)
    /\ UNCHANGED <<configVars, clientVars, factory, op, exc, argVars, retry_on_status,
                   retry_statuses, attempt, response, used, histVars, cancelled, overlapped>>

\* asyncio.sleep returns: continue leaves the async with block (or the
\* except handler ends) and the loop goes to its next index.
WakeUp(t) ==
    /\ Sleeping(t)
    /\ conn' = [conn EXCEPT ![t] = HeldAfterWake(pc[t], @)]
    /\ response' = [response EXCEPT ![t] = NoResponse]
    /\ overlapped' = [u \in Tasks |-> IF overlapped[u] = t THEN "none" ELSE overlapped[u]]
    /\ LoopTop(t, attempt[t] + 1, session, closed, used[t])
    /\ UNCHANGED <<configVars, clientVars, factory, op, exc, argVars, retry_on_status,
                   retry_statuses, outcomes, waits, requests_made, cancelled>>

\* The task running request() is cancelled at a suspension point:
\* CancelledError is raised there.  In the try block it passes the except
\* clause like any exception; in the sleep of the handler it is raised
\* outside the try block.  A response held by the async with block is
\* released on the way out.
Cancel(t) ==
    /\ pc[t] \in {"inflight", "read", "sleep_with", "sleep_except"}
    /\ cancelled' = [cancelled EXCEPT ![t] = TRUE]
    /\ overlapped' = [u \in Tasks |-> IF overlapped[u] = t THEN "none" ELSE overlapped[u]]
    /\ outcomes' = [outcomes EXCEPT ![t] =
           IF pc[t] \in {"inflight", "read"} THEN Append(@, ErrorOutcome("CancelledError")) ELSE @]
    /\ conn' = [conn EXCEPT ![t] = IF pc[t] \in {"read", "sleep_with"} THEN @ - 1 ELSE @]
    /\ IF pc[t] = "sleep_except"
       THEN /\ UNCHANGED waits
            /\ pc' = [pc EXCEPT ![t] = "idle"]
            /\ result' = [result EXCEPT ![t] = Raised("CancelledError", attempt[t])]
       ELSE Handle(t, "CancelledError")
    /\ UNCHANGED <<configVars, clientVars, factory, op, exc, argVars, retry_on_status,
                   retry_statuses, attempt, response, used, histVars>>

\* ------------------------------------------------------- specifications
\* One task: operations never overlap.
Next ==
    \E t \in SeqTasks :
        \/ Enter(t)
        \/ \E name \in {"close", "aexit"} : CloseBegin(t, name)
        \/ \E name \in {"close", "aexit"} : CloseNoop(t, name)
        \/ CloseFinish(t)
        \/ \E arg \in RetryOnStatusArgs : RequestStart(t, arg)
        \/ \E status \in Statuses, payload \in Bodies : Respond(t, status, payload)
        \/ ReadBody(t)
        \/ \E err \in ErrorKinds : Fail(t, err)
        \/ WakeUp(t)

Spec == Init /\ [][Next]_vars

InitSmall == \E n \in 1 .. SmallRetries : InitClient(n, PlainCtor)

\* One task, with the http_client factory and the exit of its scope.
NextScope ==
    \E t \in SeqTasks :
        \/ Enter(t)
        \/ FactoryEnter(t)
        \/ \E name \in {"close", "aexit", "finally"} : CloseBegin(t, name)
        \/ \E name \in {"close", "aexit", "finally"} : CloseNoop(t, name)
        \/ CloseFinish(t)
        \/ \E arg \in RetryOnStatusArgs : RequestStart(t, arg)
        \/ \E status \in Statuses, payload \in Bodies : Respond(t, status, payload)
        \/ ReadBody(t)
        \/ \E err \in ErrorKinds : Fail(t, err)
        \/ WakeUp(t)

SpecScope == InitSmall /\ [][NextScope]_vars

\* One task that can be cancelled at any suspension point of request().
NextCancel ==
    \/ Next
    \/ \E t \in SeqTasks : Cancel(t)

SpecCancel == Init /\ [][NextCancel]_vars

\* Two tasks whose operations on the one client interleave at every
\* suspension point.
NextConc ==
    \E t \in Tasks :
        \/ Enter(t)
        \/ CloseBegin(t, "close")
        \/ CloseNoop(t, "close")
        \/ CloseFinish(t)
        \/ RequestStart(t, NotSupplied)
        \/ \E status \in {200, 500} : Respond(t, status, "b1")
        \/ ReadBody(t)
        \/ Fail(t, "ClientConnectorError")
        \/ WakeUp(t)

SpecConc == InitSmall /\ [][NextConc]_vars

\* One task that calls request() directly and through the verb wrappers.
NextVerbs ==
    \E t \in SeqTasks :
        \/ CloseBegin(t, "close")
        \/ CloseFinish(t)
        \/ \E arg \in RetryOnStatusArgs : RequestStart(t, arg)
        \/ \E verb \in Verbs, arg \in RetryOnStatusArgs :
              VerbStart(t, verb, PlainEndpoint, NoHeaders, arg)
        \/ \E status \in Statuses : Respond(t, status, "b1")
        \/ ReadBody(t)
        \/ \E err \in ErrorKinds : Fail(t, err)
        \/ WakeUp(t)

SpecVerbs == InitSmall /\ [][NextVerbs]_vars

\* One task, for every base_url, default_headers, endpoint and headers.
InitArgs ==
    \E n \in 1 .. SmallRetries, b \in Strings(MaxUrlLen), d \in DefaultHeaderArgs :
        InitClient(n, [base_url |-> b, default_headers |-> d])

NextArgs ==
    \E t \in SeqTasks :
        \/ \E e \in Strings(MaxUrlLen) :
              Request(t, DirectCall(NotSupplied), "GET", e, NoHeaders, NotSupplied)
        \/ \E h \in HeaderArgs :
              Request(t, DirectCall(NotSupplied), "GET", PlainEndpoint, h, NotSupplied)
        \/ \E status \in {200, 500} : Respond(t, status, "b1")
        \/ ReadBody(t)
        \/ WakeUp(t)

SpecArgs == InitArgs /\ [][NextArgs]_vars

\* The next step of t's request() call: the attempt in flight gets its
\* response or raises, the read of the body completes, the sleep returns.
Progress(t) ==
    \/ \E status \in Statuses, payload \in Bodies : Respond(t, status, payload)
    \/ ReadBody(t)
    \/ \E err \in ErrorKinds : Fail(t, err)
    \/ WakeUp(t)

\* One task calling request(), where every attempt and every sleep of a
\* call comes to an end.
NextLive ==
    \E t \in SeqTasks :
        \/ \E arg \in RetryOnStatusArgs : RequestStart(t, arg)
        \/ Progress(t)

SpecLive == Init /\ [][NextLive]_vars /\ \A t \in SeqTasks : WF_vars(Progress(t))

\* ------------------------------------------------------ claim vocabulary
\* Task t's request() call has ended (returned or raised).
Done(t) == op[t] = "request" /\ pc[t] = "idle" /\ result[t].kind \in {"response", "raised"}

\* Attempt outcome o is a response whose status is in t's active retry set.
RetryableStatus(t, o) == o.kind = "status" /\ o.status \in retry_statuses[t]

\* Attempt outcome o is a connector failure or a server disconnect.
ConnectionError(o) ==
    o.kind = "error" /\ o.err \in {"ClientConnectorError", "ServerDisconnectedError"}

\* 1, 2, 4, ..., 2^(n-1)
Backoff(n) == [i \in 1 .. n |-> 2 ^ (i - 1)]

RECURSIVE SeqSum(_)
SeqSum(q) == IF q = <<>> THEN 0 ELSE Head(q) + SeqSum(Tail(q))

Last(q) == q[Len(q)]

LiveSessions == {s \in 1 .. Len(closed) : ~closed[s]}

\* ---------------------------------------------------------------- claims
\* C1: for max_retries = N >= 1, a call all of whose attempts returned a
\* status of the active retry set issued exactly N attempts, and its waits
\* were 1, 2, ..., 2^(N-2) in that order (2^(N-1) - 1 in total): N - 1
\* waits for N attempts, none after the last.
C1_AllRetryableBackoff ==
    \A t \in Tasks :
        ( /\ Done(t)
          /\ max_retries >= 1
          /\ outcomes[t] # <<>>
          /\ \A i \in 1 .. Len(outcomes[t]) : RetryableStatus(t, outcomes[t][i]) )
        => /\ Len(used[t]) = max_retries
           /\ Len(outcomes[t]) = max_retries
           /\ waits[t] = Backoff(max_retries - 1)
           /\ SeqSum(waits[t]) = 2 ^ (max_retries - 1) - 1

C1_Witness ==
    /\ Done("main")
    /\ max_retries = 4
    /\ outcomes["main"] = <<StatusOutcome(500), StatusOutcome(503), StatusOutcome(500), StatusOutcome(503)>>
    /\ waits["main"] = <<1, 2, 4>>

\* C2: an attempt that returns a status outside the active retry set is the
\* last attempt of its call; if it is attempt k, exactly k attempts were
\* issued, the waits were 1, 2, ..., 2^(k-2), and the call returned (did not
\* raise) that response with the server's status and body.
C2_NonRetryableReturned ==
    \A t \in Tasks : \A k \in 1 .. Len(outcomes[t]) :
        (op[t] = "request" /\ outcomes[t][k].kind = "status" /\ ~RetryableStatus(t, outcomes[t][k]))
        => /\ Done(t)
           /\ k = Len(outcomes[t])
           /\ k <= max_retries
           /\ Len(used[t]) = k
           /\ waits[t] = Backoff(k - 1)
           /\ \A i \in 1 .. k - 1 :
                 RetryableStatus(t, outcomes[t][i]) \/ ConnectionError(outcomes[t][i])
           /\ result[t].kind = "response"
           /\ result[t].status = outcomes[t][k].status
           /\ result[t].status = response[t].status
           /\ result[t].body = response[t].payload

C2_Witness ==
    /\ Done("main")
    /\ max_retries = 3
    /\ outcomes["main"] = <<StatusOutcome(500), StatusOutcome(200)>>
    /\ waits["main"] = <<1>>
    /\ result["main"].kind = "response"
    /\ result["main"].status = 200
    /\ result["main"].body = "b2"

\* C3 (as claimed): a call whose max_retries attempts all returned a status
\* of the active retry set raised an error to its caller.
C3_ExhaustedStatusRaises ==
    \A t \in Tasks :
        ( /\ Done(t)
          /\ max_retries >= 1
          /\ Len(outcomes[t]) = max_retries
          /\ \A i \in 1 .. Len(outcomes[t]) : RetryableStatus(t, outcomes[t][i]) )
        => result[t].kind = "raised"

\* C4: when every attempt raised a connection-level error, no error reaches
\* the caller before attempt max_retries; the call ends after exactly
\* max_retries attempts by raising the error of the last attempt.
C4_ConnectionErrorsExhausted ==
    \A t \in Tasks :
        ( /\ op[t] = "request"
          /\ outcomes[t] # <<>>
          /\ \A i \in 1 .. Len(outcomes[t]) : ConnectionError(outcomes[t][i]) )
        => /\ Len(outcomes[t]) < max_retries => result[t].kind = "pending"
           /\ Done(t) =>
                /\ Len(used[t]) = max_retries
                /\ Len(outcomes[t]) = max_retries
                /\ result[t].kind = "raised"
                /\ result[t].err = Last(outcomes[t]).err
                /\ result[t].at = max_retries - 1

C4_Witness ==
    /\ Done("main")
    /\ max_retries = 3
    /\ outcomes["main"] = <<ErrorOutcome("ClientConnectorError"), ErrorOutcome("ClientConnectorError"),
                            ErrorOutcome("ServerDisconnectedError")>>
    /\ result["main"] = Raised("ServerDisconnectedError", 2)

\* The retry set the caller asked for: the supplied codes, or 500..599 when
\* retry_on_status is not supplied.
RequestedSet(t) ==
    IF retry_on_status[t].supplied THEN retry_on_status[t].codes ELSE 500 .. 599

\* C5: with a non-empty supplied retry_on_status S, or with none supplied
\* (S = 500..599), the active retry set is exactly S, and a response on a
\* non-final attempt is followed by a retry wait if and only if its status
\* is in S; a 5xx status outside S goes straight to being returned.
C5_RetrySetOverride ==
    \A t \in Tasks :
        (op[t] = "request" /\ RequestedSet(t) # {})
        => /\ retry_statuses[t] = RequestedSet(t)
           /\ pc[t] = "sleep_with" => response[t].status \in RequestedSet(t)
           /\ (pc[t] = "read" /\ attempt[t] < max_retries - 1)
                 => response[t].status \notin RequestedSet(t)

C5_Witness ==
    /\ retry_on_status["main"] = Supplied({429})
    /\ max_retries = 3
    /\ pc["main"] = "read"
    /\ attempt["main"] = 1
    /\ outcomes["main"] = <<StatusOutcome(429)>>
    /\ response["main"].status = 500

\* C6 (as claimed): with retry_on_status = [] no status triggers a retry:
\* an attempt that got a response is the only attempt of its call, no wait
\* is performed and the response is returned.
C6_EmptyRetrySetNeverRetries ==
    \A t \in Tasks :
        ( /\ op[t] = "request"
          /\ retry_on_status[t] = Supplied({})
          /\ outcomes[t] # <<>>
          /\ outcomes[t][1].kind = "status" )
        => /\ Len(outcomes[t]) = 1
           /\ Len(used[t]) = 1
           /\ waits[t] = <<>>
           /\ result[t].kind = "response"

\* C7: the i-th wait of a call (i = 1, 2, ...) follows the failed attempt
\* of index i - 1 < max_retries - 1 and lasts 2^(i-1) seconds, whether that
\* attempt failed by a retryable status or by a connection-level error; the
\* waits of a call are strictly increasing.
C7_BackoffByAttemptIndex ==
    \A t \in Tasks :
        /\ Len(waits[t]) <= Len(outcomes[t])
        /\ \A i \in 1 .. Len(waits[t]) :
              /\ waits[t][i] = 2 ^ (i - 1)
              /\ i - 1 < max_retries - 1
              /\ RetryableStatus(t, outcomes[t][i]) \/ ConnectionError(outcomes[t][i])
              /\ i > 1 => waits[t][i - 1] < waits[t][i]
        /\ pc[t] \in {"sleep_with", "sleep_except"} =>
              /\ Len(waits[t]) = attempt[t] + 1
              /\ Last(waits[t]) = 2 ^ attempt[t]

C7_Witness ==
    /\ pc["main"] = "sleep_with"
    /\ outcomes["main"] = <<StatusOutcome(503), ErrorOutcome("ServerDisconnectedError"), StatusOutcome(500)>>
    /\ waits["main"] = <<1, 2, 4>>

\* C8: at most one session created by the client is open at any time.
C8_AtMostOneLiveSession == Cardinality(LiveSessions) <= 1

C8_Witness ==
    /\ Len(closed) = 3
    /\ LiveSessions = {3}
    /\ session = 3
    /\ Done("main")

\* C9: all attempts issued since the last close() began, by however many
\* request() calls, went over one and the same session, which is the open
\* session the client references.
C9_SessionReuse ==
    /\ Cardinality(sessions_used) <= 1
    /\ (sessions_used # {} /\ \A t \in Tasks : pc[t] # "closing")
          => /\ sessions_used = {session}
             /\ ~closed[session]
    /\ \A t \in Tasks : \A i \in 1 .. Len(used[t]) : used[t][i] \in sessions_used

C9_Witness ==
    /\ requests_made = 2
    /\ Done("main")
    /\ Len(used["main"]) = 2
    /\ sessions_used = {1}
    /\ Len(closed) = 1

\* C10: no request() raises because the session is absent or closed; after
\* a close(), a request() or scope entry leaves the client with an open
\* session that is none of the closed ones, and every attempt of the call
\* is issued over that session.
C10_ReopenAfterClose ==
    \A t \in Tasks :
        /\ result[t].err \notin {"AttributeError", "RuntimeError"}
        /\ op[t] \in {"request", "aenter"} =>
              /\ session # NoSession
              /\ ~closed[session]
              /\ \A i \in 1 .. Len(used[t]) : used[t][i] = session

C10_Witness ==
    /\ Len(closed) = 2
    /\ closed[1]
    /\ session = 2
    /\ Done("main")
    /\ result["main"].kind = "response"
    /\ used["main"] = <<2, 2>>

\* C11: when the scope of a client ends, by __aexit__ or by the finally of
\* http_client, with or without an error of the body, no session of the
\* client is open, the client references none, and the caller gets the
\* body's error if there was one (nothing otherwise).
C11_ScopeExitCloses ==
    \A t \in Tasks :
        (op[t] \in {"aexit", "finally"} /\ pc[t] = "idle")
        => /\ session = NoSession
           /\ LiveSessions = {}
           /\ exc[t] = "none" => result[t].kind = "returned"
           /\ exc[t] # "none" => (result[t].kind = "raised" /\ result[t].err = exc[t])

C11_Witness ==
    /\ op["main"] = "finally"
    /\ pc["main"] = "idle"
    /\ exc["main"] = "ServerDisconnectedError"
    /\ result["main"].kind = "raised"
    /\ closed = <<TRUE>>
    /\ session = NoSession

\* C12: while one task is in a backoff wait, the next step of another
\* task's request() is not held back: it can start a request, receive the
\* response of its attempt in flight and finish its read.
C12_BackoffDoesNotBlock ==
    \A s \in Tasks : \A t \in Tasks \ {s} :
        Sleeping(s)
        => /\ pc[t] = "inflight" => ENABLED Respond(t, 200, "b1")
           /\ pc[t] = "read" => ENABLED ReadBody(t)
           /\ ( /\ pc[t] = "idle"
                /\ requests_made < MaxCalls
                /\ NeedsSession => Len(closed) < MaxSessions )
              => ENABLED RequestStart(t, NotSupplied)

C12_Witness ==
    /\ Sleeping("main")
    /\ overlapped["other"] = "main"
    /\ Done("other")
    /\ result["other"].kind = "response"

\* C13: while the body of a response is being read the call still holds
\* the response's connection, and a returned response carries the body the
\* server sent, the connection being released by then.
C13_BodyReadBeforeRelease ==
    \A t \in Tasks :
        /\ pc[t] = "read" => (conn[t] = 1 /\ response[t].body = "unread")
        /\ (Done(t) /\ result[t].kind = "response")
           => /\ conn[t] = 0
              /\ response[t].body = response[t].payload
              /\ result[t].body = response[t].payload
              /\ result[t].body \in Bodies

C13_Witness ==
    /\ Done("main")
    /\ result["main"].kind = "response"
    /\ result["main"].body = "b1"
    /\ response["main"].payload = "b1"
    /\ conn["main"] = 0

\* The method of each verb wrapper.
VerbMethods ==
    {<<"get", "GET">>, <<"post", "POST">>, <<"put", "PUT">>,
     <<"delete", "DELETE">>, <<"patch", "PATCH">>}

\* What a call made of the attempt outcomes outs gives its caller.
OutcomeResult(outs, r) ==
    IF Last(outs).kind = "status"
    THEN r.kind = "response" /\ r.status = Last(outs).status
    ELSE r.kind = "raised" /\ r.err = Last(outs).err /\ r.at = Len(outs) - 1

\* C14: a call through a verb wrapper is one request() call with the
\* wrapper's method and the caller's arguments: request() receives the
\* caller's retry_on_status, and attempts, waits and result follow from
\* the attempt outcomes exactly as for a direct request() call, with at
\* most max_retries attempts in all.
C14_WrappersAreRequest ==
    \A t \in Tasks :
        op[t] = "request"
        => /\ caller[t].via \in Verbs =>
                 /\ <<caller[t].via, method[t]>> \in VerbMethods
                 /\ retry_on_status[t] = caller[t].arg
           /\ retry_statuses[t] =
                 (IF caller[t].arg.supplied /\ caller[t].arg.codes # {}
                  THEN caller[t].arg.codes ELSE 500 .. 599)
           /\ Len(used[t]) <= max_retries
           /\ waits[t] = Backoff(Len(waits[t]))
           /\ Done(t) =>
                 /\ Len(used[t]) = Len(outcomes[t])
                 /\ waits[t] = Backoff(Len(outcomes[t]) - 1)
                 /\ OutcomeResult(outcomes[t], result[t])
                 /\ \A i \in 1 .. Len(outcomes[t]) - 1 :
                       RetryableStatus(t, outcomes[t][i]) \/ ConnectionError(outcomes[t][i])

C14_Witness ==
    /\ caller["main"] = [arg |-> Supplied({429}), via |-> "post"]
    /\ method["main"] = "POST"
    /\ Done("main")
    /\ outcomes["main"] = <<StatusOutcome(429), StatusOutcome(500)>>
    /\ waits["main"] = <<1>>
    /\ result["main"].status = 500

\* s without its trailing slashes: its longest prefix not ending in "/".
TrimmedBase(s) ==
    LET keep == {i \in 1 .. Len(s) : s[i] # "/"}
    IN  SubSeq(s, 1, IF keep = {} THEN 0 ELSE CHOOSE i \in keep : \A j \in keep : j <= i)

\* e without its leading "/", if it has one.
WithoutLeadingSlash(e) == IF e # <<>> /\ Head(e) = "/" THEN Tail(e) ELSE e

\* C15: at every point of a request() call the url is the base_url given
\* to the constructor without its trailing slashes, then one "/", then the
\* endpoint without its leading "/"; it is the same for every attempt.
C15_UrlJoin ==
    \A t \in Tasks :
        op[t] = "request"
        => url[t] = TrimmedBase(ctor_args.base_url) \o <<"/">> \o WithoutLeadingSlash(endpoint[t])

C15_Witness ==
    /\ ctor_args.base_url = <<"h", "/">>
    /\ endpoint["main"] = <<"/", "h">>
    /\ url["main"] = <<"h", "/", "h">>
    /\ pc["main"] = "inflight"
    /\ attempt["main"] = 1

\* The mapping an optional headers argument stands for.
MapOf(h) == IF h.supplied THEN h.map ELSE <<>>

\* C16: at every point of a request() call request_headers has the keys of
\* default_headers and of headers, with the value of headers where it has
\* the key and that of default_headers elsewhere; default_headers stays as
\* constructed, and a call without headers sends exactly default_headers.
C16_HeaderMerge ==
    \A t \in Tasks :
        op[t] = "request"
        => LET D == MapOf(ctor_args.default_headers)
               H == MapOf(headers[t])
           IN  /\ DOMAIN request_headers[t] = DOMAIN D \cup DOMAIN H
               /\ \A k \in DOMAIN H : request_headers[t][k] = H[k]
               /\ \A k \in DOMAIN D \ DOMAIN H : request_headers[t][k] = D[k]
               /\ DOMAIN default_headers = DOMAIN D
               /\ \A k \in DOMAIN D : default_headers[k] = D[k]
               /\ DOMAIN H = {} => DOMAIN request_headers[t] = DOMAIN D

C16_Witness ==
    /\ ctor_args.default_headers = HeadersOf("A" :> "1")
    /\ headers["main"] = HeadersOf(("A" :> "2") @@ ("B" :> "3"))
    /\ DOMAIN request_headers["main"] = {"A", "B"}
    /\ request_headers["main"]["A"] = "2"
    /\ request_headers["main"]["B"] = "3"
    /\ requests_made = 2
    /\ pc["main"] = "inflight"
    /\ attempt["main"] = 1

C19_AttemptsSequential ==
    \A t \in Tasks :
        op[t] = "request"
        => /\ conn[t] \in {0, 1}
           /\ Len(outcomes[t]) <= Len(used[t])
           /\ Len(used[t]) <= Len(outcomes[t]) + 1
           /\ pc[t] \in {"inflight", "read"} =>
                 /\ Len(used[t]) = attempt[t] + 1
                 /\ Len(outcomes[t]) = attempt[t]
                 /\ waits[t] = Backoff(attempt[t])
           /\ pc[t] = "inflight" => conn[t] = 0
           /\ Sleeping(t) =>
                 /\ Len(used[t]) = attempt[t] + 1
                 /\ Len(outcomes[t]) = attempt[t] + 1

C19_Witness ==
    /\ pc["main"] = "inflight"
    /\ attempt["main"] = 2
    /\ outcomes["main"] = <<StatusOutcome(500), StatusOutcome(503)>>
    /\ waits["main"] = <<1, 2>>
    /\ conn["main"] = 0

\* C20: once the task of a request() call is cancelled the call has ended
\* with the cancellation: it holds no connection, it issued no attempt
\* beyond the one it was cancelled in, and no wait follows the cancellation.
C20_CancellationEndsCall ==
    \A t \in Tasks :
        cancelled[t]
        => /\ pc[t] = "idle"
           /\ result[t] = Raised("CancelledError", attempt[t])
           /\ conn[t] = 0
           /\ Len(used[t]) = attempt[t] + 1
           /\ Len(waits[t]) <= Len(outcomes[t])
           /\ \A i \in 1 .. Len(waits[t]) : outcomes[t][i].err # "CancelledError"

C20_Witness ==
    /\ cancelled["main"]
    /\ outcomes["main"] = <<StatusOutcome(500), StatusOutcome(503)>>
    /\ waits["main"] = <<1, 2>>
    /\ conn["main"] = 0
    /\ result["main"] = Raised("CancelledError", 1)

\* The larger of a and b.
Max(a, b) == IF a >= b THEN a ELSE b

\* C21: provided every attempt and every sleep ends, a request() call that
\* has started ends, by a response or by an error; at every point it has
\* issued at most max_retries attempts and started at most max_retries - 1
\* waits (none of either when max_retries < 1).
C21_CallTerminates ==
    /\ [](\A t \in SeqTasks :
             op[t] = "request"
             => /\ Len(used[t]) <= Max(max_retries, 0)
                /\ Len(waits[t]) <= Max(max_retries - 1, 0))
    /\ \A t \in SeqTasks : (op[t] = "request" /\ pc[t] # "idle") ~> Done(t)

C21_Witness ==
    /\ max_retries = 4
    /\ Done("main")
    /\ Len(used["main"]) = 4
    /\ waits["main"] = <<1, 2, 4>>
    /\ outcomes["main"] = <<StatusOutcome(500), ErrorOutcome("ClientConnectorError"),
                            StatusOutcome(503), ErrorOutcome("ServerDisconnectedError")>>
    /\ result["main"] = Raised("ServerDisconnectedError", 3)

\* Attempt outcome o is an exception the except clause does not catch.
OtherError(o) ==
    o.kind = "error" /\ o.err \notin {"ClientConnectorError", "ServerDisconnectedError"}

\* C22: an exception of an attempt that is neither a connector failure nor
\* a server disconnect is the last outcome of its call: the call has ended
\* raising it from that attempt, no wait was started for it and no attempt
\* follows it, whatever the attempt index.
C22_OtherErrorsPropagate ==
    \A t \in Tasks :
        op[t] = "request"
        => \A i \in 1 .. Len(outcomes[t]) :
              OtherError(outcomes[t][i])
              => /\ i = Len(outcomes[t])
                 /\ pc[t] = "idle"
                 /\ result[t] = Raised(outcomes[t][i].err, i - 1)
                 /\ Len(used[t]) = i
                 /\ Len(waits[t]) = i - 1

C22_Witness ==
    /\ max_retries = 4
    /\ outcomes["main"] = <<StatusOutcome(500), ErrorOutcome("TimeoutError")>>
    /\ result["main"] = Raised("TimeoutError", 1)
    /\ waits["main"] = <<1>>
    /\ Len(used["main"]) = 2
    /\ pc["main"] = "idle"

\* C23 (as claimed): a call suspended in a backoff wait holds no
\* connection: the response of the failed attempt was released before the
\* wait began, after a retryable status as after a connection-level error.
C23_NoConnectionDuringBackoff ==
    \A t \in Tasks : Sleeping(t) => conn[t] = 0

\* C24 (as claimed): in every interleaving of close() with request() and
\* scope entry, every open session is the one the client references: close()
\* never drops from the client a session it has not closed.
C24_LiveSessionIsReferenced ==
    \A s \in LiveSessions : s = session

\* C25: close() on a client that references no session (none was ever
\* created, or a close() has completed) is possible, returns without
\* suspending and without raising, and changes neither the sessions nor
\* the reference; close() suspends only to close the open session the
\* client references, and a closed session is never open again, so each
\* session is closed at most once.
C25_CloseIdempotent ==
    /\ [](\A t \in SeqTasks :
             (pc[t] = "idle" /\ session = NoSession)
             => /\ ENABLED CloseNoop(t, "close")
                /\ ~ENABLED CloseBegin(t, "close"))
    /\ [][\A t \in SeqTasks :
             /\ (pc[t] = "idle" /\ pc'[t] = "idle" /\ op'[t] = "close")
                => /\ session = NoSession
                   /\ session' = NoSession
                   /\ closed' = closed
                   /\ result'[t] = Returned
             /\ (pc[t] = "idle" /\ pc'[t] = "closing")
                => /\ session \in LiveSessions
                   /\ closed' = [closed EXCEPT ![session] = TRUE]
             /\ \A s \in 1 .. Len(closed) : closed[s] => closed'[s]]_vars

C25_Witness ==
    /\ closed = <<>>
    /\ session = NoSession
    /\ op["main"] = "close"
    /\ pc["main"] = "idle"
    /\ result["main"] = Returned

\* C26: no step of a request() call closes or replaces an open session;
\* when a call has ended in an error the session of its attempts is still
\* the open session the client references, and the next request() call
\* keeps it and issues its attempts over it.
C26_ErrorLeavesSession ==
    /\ [](\A t \in SeqTasks :
             (Done(t) /\ result[t].kind = "raised" /\ used[t] # <<>>)
             => /\ session = Last(used[t])
                /\ session \in LiveSessions
                /\ \A i \in 1 .. Len(used[t]) : used[t][i] = session)
    /\ [][\A t \in SeqTasks :
             /\ (op'[t] = "request" /\ session \in LiveSessions)
                => (session' = session /\ closed' = closed)
             /\ (Done(t) /\ result[t].kind = "raised" /\ requests_made' = requests_made + 1)
                => /\ session' = session
                   /\ closed' = closed
                   /\ pc'[t] = "inflight" => used'[t] = <<session>>]_vars

C26_Witness ==
    /\ Done("main")
    /\ result["main"] = Raised("TimeoutError", 1)
    /\ requests_made = 2
    /\ sessions_used = {1}
    /\ session = 1
    /\ closed = <<FALSE>>
    /\ used["main"] = <<1, 1>>

====
